---------------------------- MODULE Spec2Model ----------------------------
(***************************************************************************)
(* Navigation helper of the bvh website: markActiveNav, initDropdowns and  *)
(* initNav, in the three revisions kept in the repository:                 *)
(*   "part_000"   src/unnamed/part_000           (IIFE, guarded, link close)*)
(*   "nav_robust" src/assets/js/nav.js:1-178     (guarded document handlers)*)
(*   "nav_basic"  src/assets/js/nav.js:180-269   (no guard, no try/catch)   *)
(* Strings are sequences of tokens: the delimiters "/", "?", "#", ":" are  *)
(* single tokens and every run of other characters is one atomic token.    *)
(***************************************************************************)
EXTENDS Integers, Sequences, FiniteSets, TLC

\* ------------------------------------------------------------------ bounds
NumDropdowns == 2
MaxInits == 2
\* longest path string handed to normalizePath directly, in tokens
MaxLen == 4

Dropdowns == 1..NumDropdowns
\* link 0 is a top-level link of .main-nav, link d sits in the menu of dropdown d
Links == 0..NumDropdowns

Revisions == {"part_000", "nav_robust", "nav_basic"}

\* ------------------------------------------------------- string primitives
RECURSIVE IndexOf(_, _, _)
\* position of the first token c in s at or after i, 0 when there is none
IndexOf(s, c, i) ==
  IF i > Len(s) THEN 0
  ELSE IF s[i] = c THEN i ELSE IndexOf(s, c, i + 1)

\* s.split(c)[0]
SplitFirst(s, c) ==
  LET i == IndexOf(s, c, 1) IN IF i = 0 THEN s ELSE SubSeq(s, 1, i - 1)

RECURSIVE LastIndexOf(_, _, _)
\* position of the last token c in s at or before i, 0 when there is none
LastIndexOf(s, c, i) ==
  IF i < 1 THEN 0
  ELSE IF s[i] = c THEN i ELSE LastIndexOf(s, c, i - 1)

\* s.split(c).pop()
SplitPop(s, c) ==
  LET i == LastIndexOf(s, c, Len(s)) IN SubSeq(s, i + 1, Len(s))

EndsWith(s, c) == Len(s) > 0 /\ s[Len(s)] = c
StartsWith(s, c) == Len(s) > 0 /\ s[1] = c

IndexHtml == <<"/", "index.html">>

\* ------------------------------------------------------------ normalizePath
\* part_000: a leading slash is added when missing
NormalizePathIIFE(pathname) ==
  IF pathname = <<>> THEN IndexHtml
  ELSE LET p1 == SplitFirst(SplitFirst(pathname, "?"), "#") IN
       IF p1 = <<>> \/ p1 = <<"/">> THEN IndexHtml
       ELSE LET p2 == IF EndsWith(p1, "/") THEN SubSeq(p1, 1, Len(p1) - 1) ELSE p1 IN
            IF StartsWith(p2, "/") THEN p2 ELSE <<"/">> \o p2

\* nav.js, first revision: the path is returned as it is after the slice
NormalizePathNav(pathname) ==
  IF pathname = <<>> THEN IndexHtml
  ELSE LET p1 == SplitFirst(SplitFirst(pathname, "?"), "#") IN
       IF p1 = <<>> \/ p1 = <<"/">> THEN IndexHtml
       ELSE IF EndsWith(p1, "/") THEN SubSeq(p1, 1, Len(p1) - 1) ELSE p1

\* mutant of normalizePath: a trailing slash is kept
NormalizePathKeepSlash(r, pathname) ==
  IF pathname = <<>> THEN IndexHtml
  ELSE LET p1 == SplitFirst(SplitFirst(pathname, "?"), "#") IN
       IF p1 = <<>> \/ p1 = <<"/">> THEN IndexHtml
       ELSE IF r # "part_000" \/ StartsWith(p1, "/") THEN p1 ELSE <<"/">> \o p1

normalizePath(r, pathname) ==
  IF r = "part_000" THEN NormalizePathIIFE(pathname) ELSE NormalizePathNav(pathname)


\* ------------------------------------------------------------- new URL(...)
\* location.origin of the page, and the origin of URLs without one
LocationScheme == "https"
LocationHost == <<"bvh.example">>
OriginOf(scheme, host) == <<scheme, ":", "/", "/">> \o host
LocationOrigin == OriginOf(LocationScheme, LocationHost)
OpaqueOrigin == <<"null">>

Delims == {"/", "?", "#", ":"}
SpecialSchemes == {"http", "https"}

\* the href up to its query and fragment
StripQueryHash(s) == SplitFirst(SplitFirst(s, "#"), "?")

RECURSIVE SkipSlashes(_)
SkipSlashes(s) == IF StartsWith(s, "/") THEN SkipSlashes(Tail(s)) ELSE s

\* a path without its last segment (the URL standard's "shorten")
PopSegment(out) ==
  LET i == LastIndexOf(out, "/", Len(out)) IN
  IF i = 0 THEN <<>> ELSE SubSeq(out, 1, i - 1)

RECURSIVE RemoveDots(_, _, _)
\* path starts with "/"; i is the position of the "/" opening the next segment
RemoveDots(path, i, out) ==
  IF i > Len(path) THEN (IF out = <<>> THEN <<"/">> ELSE out)
  ELSE LET j == IndexOf(path, "/", i + 1)
           stop == IF j = 0 THEN Len(path) + 1 ELSE j
           seg == SubSeq(path, i + 1, stop - 1)
           isLast == j = 0
       IN IF seg = <<".">>
          THEN RemoveDots(path, stop, IF isLast THEN out \o <<"/">> ELSE out)
          ELSE IF seg = <<"..">>
          THEN RemoveDots(path, stop,
                          IF isLast THEN PopSegment(out) \o <<"/">> ELSE PopSegment(out))
          ELSE RemoveDots(path, stop, out \o <<"/">> \o seg)

Failure == [ok |-> FALSE, origin |-> OpaqueOrigin, pathname |-> <<>>]

\* host and path of "//host/path": a missing host makes the constructor throw
ParseAuthority(scheme, a) ==
  LET i == IndexOf(a, "/", 1)
      host == IF i = 0 THEN a ELSE SubSeq(a, 1, i - 1)
      path == IF i = 0 THEN <<"/">> ELSE SubSeq(a, i, Len(a))
  IN IF host = <<>> THEN Failure
     ELSE [ok |-> TRUE, origin |-> OriginOf(scheme, host),
           pathname |-> RemoveDots(path, 1, <<>>)]

\* a reference without scheme, resolved against the page's URL
ParseRelative(r, basePath) ==
  IF Len(r) >= 2 /\ r[1] = "/" /\ r[2] = "/"
  THEN ParseAuthority(LocationScheme, SkipSlashes(r))
  ELSE LET dir == SubSeq(basePath, 1, LastIndexOf(basePath, "/", Len(basePath)))
           path == IF r = <<>> THEN basePath
                   ELSE IF StartsWith(r, "/") THEN r
                   ELSE dir \o r
       IN [ok |-> TRUE, origin |-> LocationOrigin,
           pathname |-> RemoveDots(path, 1, <<>>)]

\* new URL(href, location.href): ok = FALSE stands for the TypeError it throws
URLParse(href, basePath) ==
  IF Len(href) >= 2 /\ href[1] \notin Delims /\ href[2] = ":"
  THEN LET scheme == href[1]
           rest == StripQueryHash(SubSeq(href, 3, Len(href)))
       IN IF scheme \in SpecialSchemes
          THEN IF (Len(rest) >= 2 /\ rest[1] = "/" /\ rest[2] = "/")
                  \/ scheme # LocationScheme
               THEN ParseAuthority(scheme, SkipSlashes(rest))
               ELSE ParseRelative(rest, basePath)
          ELSE [ok |-> TRUE, origin |-> OpaqueOrigin, pathname |-> rest]
  ELSE ParseRelative(StripQueryHash(href), basePath)

\* ------------------------------------------------------------ resolveToPath
Null == <<"<null>">>
Falsy(s) == s = Null \/ s = <<>>

resolveToPath(r, h, basePath) ==
  IF Falsy(h) THEN Null
  ELSE LET url == URLParse(h, basePath) IN
       IF ~url.ok THEN Null
       ELSE IF url.origin # LocationOrigin THEN Null
       ELSE normalizePath(r, url.pathname)

\* ------------------------------------------------------------ markActiveNav
\* the file name compared by the oldest revision: location.pathname.split('/').pop()
BasicCurrent(pathname) ==
  LET cur == SplitPop(pathname, "/") IN IF cur = <<>> THEN <<"index.html">> ELSE cur

\* href.replace(/^\//, ''), '' taken as index.html
BasicHref(h) ==
  LET h1 == IF StartsWith(h, "/") THEN Tail(h) ELSE h IN
  IF h1 = <<>> THEN <<"index.html">> ELSE h1

\* whether the marking pass of revision r flags a link with this href
LinkMatches(r, h, pathname) ==
  IF r = "nav_basic"
  THEN BasicHref(h) = BasicCurrent(pathname)
  ELSE LET linkPath == resolveToPath(r, h, pathname) IN
       ~Falsy(linkPath) /\ linkPath = normalizePath(r, pathname)


\* -------------------------------------------------------------------- state
VARIABLES
  rev,            \* the revision of the script the page has loaded
  pathname,       \* location.pathname
  navPresent,     \* the header markup (.main-nav with its dropdowns) is in the document
  shape,          \* per dropdown: "full", "noBtn" (no .dropbtn) or "noMenu" (no .dropdown-menu)
  href,           \* per link: its href attribute
  linkActive,     \* per link: class "active"
  btnActive,      \* per dropdown: class "active" on its .dropbtn
  navInit,        \* per dropdown: btn.dataset._navInit
  open,           \* per dropdown: class "open"
  aria,           \* per dropdown: aria-expanded of its .dropbtn ("none" = attribute absent)
  btnListeners,   \* per dropdown: click listeners on the .dropbtn
  menuListeners,  \* per dropdown: click listeners on the .dropdown-menu
  linkListeners,  \* per dropdown: click listeners on the menu's links
  docClick,       \* click listeners on document
  docKeydown,     \* keydown listeners on document
  installed,      \* window.__bv_nav_handlers_installed
  initCalls,      \* number of initNav calls so far
  passes,         \* initDropdowns passes completed over the markup now in the document
  last,           \* the last operation and what it did (history, read by the properties)
  twin,           \* a second page running a guarded revision on the same input (paired runs)
  fnIn,           \* the argument of a direct call of normalizePath
  fnOut           \* its result

vars == <<rev, pathname, navPresent, shape, href, linkActive, btnActive, navInit,
          open, aria, btnListeners, menuListeners, linkListeners, docClick,
          docKeydown, installed, initCalls, passes, last, twin, fnIn, fnOut>>

\* the variables only the paired and the direct-call specifications move
aux == <<twin, fnIn, fnOut>>
NoTwin == [rev |-> "none"]
NoCall == <<"<no call>">>
AuxIdle == twin = NoTwin /\ fnIn = <<>> /\ fnOut = NoCall

HasBtn(d) == navPresent /\ shape[d] # "noBtn"
HasMenu(d) == navPresent /\ shape[d] # "noMenu"
LinkExists(l) == navPresent /\ (IF l = 0 THEN TRUE ELSE shape[l] # "noMenu")

AllFull == [d \in Dropdowns |-> "full"]
\* the markups the loader inserts: well-formed, or one group lacking a part
Shapes == {AllFull} \cup
          {[AllFull EXCEPT ![d] = m] : d \in Dropdowns, m \in {"noBtn", "noMenu"}}

FileNames == <<"chronik.html", "kontakt.html", "termine.html", "verein.html">>
FileOf(l) == FileNames[((l - 1) % Len(FileNames)) + 1]
\* hrefs of the inserted markup: the site's own pages (root and relative file
\* names), or hrefs that are not comparable (fragment, other origin, mailto)
Markup(v) ==
  [l \in Links |->
     IF v = "site" THEN (IF l = 0 THEN <<"/">> ELSE <<FileOf(l)>>)
     ELSE (IF l = 0 THEN <<"#", "top">>
           ELSE IF l % 2 = 1 THEN <<"https", ":", "/", "/", "other.example", "/", FileOf(l)>>
           ELSE <<"mailto", ":", "info">>)]
Variants == {"site", "foreign"}
Pages == {<<"/">>, <<"/", "chronik.html">>}

NoEvent == [kind |-> "none", el |-> "none", d |-> 0, key |-> "none",
            openBefore |-> [d \in Dropdowns |-> FALSE],
            ariaBefore |-> [d \in Dropdowns |-> "none"],
            docRuns |-> 0, toggles |-> 0, prevented |-> FALSE,
            threw |-> FALSE, warned |-> FALSE, calls |-> <<>>,
            repeat |-> FALSE, openPrior |-> FALSE]

\* no listener registered, no class set, nothing called yet
FreshPage ==
  /\ linkActive = [l \in Links |-> FALSE]
  /\ btnActive = [d \in Dropdowns |-> FALSE]
  /\ navInit = [d \in Dropdowns |-> ""]
  /\ open = [d \in Dropdowns |-> FALSE]
  /\ aria = [d \in Dropdowns |-> "none"]
  /\ btnListeners = [d \in Dropdowns |-> 0]
  /\ menuListeners = [d \in Dropdowns |-> 0]
  /\ linkListeners = [d \in Dropdowns |-> 0]
  /\ docClick = 0
  /\ docKeydown = 0
  /\ installed = FALSE
  /\ initCalls = 0
  /\ passes = 0
  /\ last = NoEvent

Init ==
  /\ rev \in Revisions
  /\ pathname \in Pages
  /\ navPresent = FALSE
  /\ shape = AllFull
  /\ href = [l \in Links |-> <<>>]
  /\ FreshPage
  /\ AuxIdle

\* ----------------------------------------------------------- event handlers
\* A dispatch carries s = [open, aria, stopped, docRuns, toggles, prevented].

\* mutant of CloseOthers: the other open dropdowns are left as they are
CloseOthersKeep(s, d) == s

\* document.querySelectorAll('.dropdown.open').forEach(other => if (other !== dd) ...)
CloseOthers(s, d) ==
  [s EXCEPT
     !.open = [x \in Dropdowns |-> IF x # d THEN FALSE ELSE s.open[x]],
     !.aria = [x \in Dropdowns |->
                 IF x # d /\ s.open[x] /\ HasBtn(x) THEN "false" ELSE s.aria[x]]]

\* mutant of ToggleHandler: classList.add('open') in place of classList.toggle('open')
ToggleHandlerAdd(s, d) ==
  CloseOthers([s EXCEPT !.stopped = TRUE,
                        !.toggles = @ + 1,
                        !.open = [@ EXCEPT ![d] = TRUE],
                        !.aria = [@ EXCEPT ![d] = "true"]], d)

\* the click listener of a .dropbtn
ToggleHandler(s, d) ==
  LET isOpen == ~s.open[d]
      s1 == [s EXCEPT !.stopped = TRUE,
                      !.toggles = @ + 1,
                      !.open = [@ EXCEPT ![d] = isOpen],
                      !.aria = [@ EXCEPT ![d] = IF isOpen THEN "true" ELSE "false"]]
  IN CloseOthers(s1, d)

\* mutant of MenuHandler: the listener does not call stopPropagation()
MenuHandlerBubbles(s, d) == s

\* the click listener of a .dropdown-menu
MenuHandler(s, d) == [s EXCEPT !.stopped = TRUE]

\* the click listener of a menu link (part_000 only)
LinkHandler(s, d) ==
  [s EXCEPT !.open = [@ EXCEPT ![d] = FALSE],
            !.aria = [@ EXCEPT ![d] = "false"]]

\* mutant of CloseAllOpen: the class is removed, aria-expanded is not reset
CloseAllOpenKeepAria(s) == [s EXCEPT !.open = [x \in Dropdowns |-> FALSE]]

\* the body shared by the document listeners: close every open dropdown
CloseAllOpen(s) ==
  [s EXCEPT
     !.open = [x \in Dropdowns |-> FALSE],
     !.aria = [x \in Dropdowns |->
                 IF s.open[x] /\ HasBtn(x) THEN "false" ELSE s.aria[x]]]

\* mutant of DocClickHandler: classList.toggle('open') on every dropdown
DocClickHandlerToggle(s) ==
  [s EXCEPT !.open = [x \in Dropdowns |-> HasBtn(x) /\ ~s.open[x]],
            !.aria = [x \in Dropdowns |->
                        IF HasBtn(x) THEN (IF s.open[x] THEN "false" ELSE "true")
                        ELSE s.aria[x]],
            !.docRuns = @ + 1]

\* the click listener of document
DocClickHandler(s) == [CloseAllOpen(s) EXCEPT !.docRuns = @ + 1]

\* mutant of DocKeydownHandler: the legacy key name 'Esc' is not recognised
DocKeydownOnlyEscape(s, key) ==
  IF key = "Escape"
  THEN [CloseAllOpen(s) EXCEPT !.docRuns = @ + 1]
  ELSE [s EXCEPT !.docRuns = @ + 1]

\* the keydown listener of document
DocKeydownHandler(s, key) ==
  IF key = "Escape" \/ key = "Esc"
  THEN [CloseAllOpen(s) EXCEPT !.docRuns = @ + 1]
  ELSE [s EXCEPT !.docRuns = @ + 1]

RECURSIVE RunToggle(_, _, _)
RunToggle(s, d, n) == IF n = 0 THEN s ELSE RunToggle(ToggleHandler(s, d), d, n - 1)
RECURSIVE RunMenu(_, _, _)
RunMenu(s, d, n) == IF n = 0 THEN s ELSE RunMenu(MenuHandler(s, d), d, n - 1)
RECURSIVE RunLink(_, _, _)
RunLink(s, d, n) == IF n = 0 THEN s ELSE RunLink(LinkHandler(s, d), d, n - 1)
RECURSIVE RunDocClick(_, _)
RunDocClick(s, n) == IF n = 0 THEN s ELSE RunDocClick(DocClickHandler(s), n - 1)
RECURSIVE RunDocKeydown(_, _, _)
RunDocKeydown(s, key, n) ==
  IF n = 0 THEN s ELSE RunDocKeydown(DocKeydownHandler(s, key), key, n - 1)

\* ------------------------------------------------------------ DOM dispatch
Node(el, d) == [el |-> el, d |-> d]
Document == Node("document", 0)

\* the elements a user can click
Targets ==
  {Node("body", 0)} \cup
  (IF navPresent THEN {Node("link", 0)} ELSE {}) \cup
  {Node("dd", d) : d \in {x \in Dropdowns : navPresent}} \cup
  {Node("btn", d) : d \in {x \in Dropdowns : HasBtn(x)}} \cup
  {Node("menu", d) : d \in {x \in Dropdowns : HasMenu(x)}} \cup
  {Node("link", d) : d \in {x \in Dropdowns : HasMenu(x)}}

\* the bubbling path of a click, from its target up to document
ClickPath(t) ==
  IF t.el = "btn" THEN <<t, Node("dd", t.d), Document>>
  ELSE IF t.el = "menu" THEN <<t, Node("dd", t.d), Document>>
  ELSE IF t.el = "link" /\ t.d # 0
       THEN <<t, Node("menu", t.d), Node("dd", t.d), Document>>
  ELSE IF t.el = "body" THEN <<Document>>
  ELSE <<t, Document>>

\* every click listener registered on one node runs, in registration order
ListenersAt(s, n) ==
  IF n.el = "btn" THEN RunToggle(s, n.d, btnListeners[n.d])
  ELSE IF n.el = "menu" THEN RunMenu(s, n.d, menuListeners[n.d])
  ELSE IF n.el = "link" /\ n.d # 0 THEN RunLink(s, n.d, linkListeners[n.d])
  ELSE IF n.el = "document" THEN RunDocClick(s, docClick)
  ELSE s

RECURSIVE Propagate(_, _)
\* bubbling stops after the node on which a listener called stopPropagation()
Propagate(s, path) ==
  IF path = <<>> THEN s
  ELSE LET s1 == ListenersAt(s, Head(path)) IN
       IF s1.stopped THEN s1 ELSE Propagate(s1, Tail(path))

Dispatch0 == [open |-> open, aria |-> aria, stopped |-> FALSE,
              docRuns |-> 0, toggles |-> 0, prevented |-> FALSE]


\* ------------------------------------------------------------------ events
\* the user clicks element t
Click(t) ==
  LET s == Propagate(Dispatch0, ClickPath(t))
      again == t.el = "btn" /\ last.kind = "click" /\ last.el = "btn" /\ last.d = t.d
  IN /\ open' = s.open
     /\ aria' = s.aria
     /\ last' = [NoEvent EXCEPT !.kind = "click", !.el = t.el, !.d = t.d,
                                !.openBefore = open, !.ariaBefore = aria,
                                !.docRuns = s.docRuns, !.toggles = s.toggles,
                                !.prevented = s.prevented,
                                !.repeat = again,
                                !.openPrior = IF again THEN last.openBefore[t.d] ELSE FALSE]
     /\ UNCHANGED <<rev, pathname, navPresent, shape, href, linkActive, btnActive,
                    navInit, btnListeners, menuListeners, linkListeners, docClick,
                    docKeydown, installed, initCalls, passes>>

Keys == {"Escape", "Esc", "Enter"}

\* the user presses a key; keydown bubbles to document from wherever the focus is
KeyDown(key) ==
  LET s == RunDocKeydown(Dispatch0, key, docKeydown)
  IN /\ open' = s.open
     /\ aria' = s.aria
     /\ last' = [NoEvent EXCEPT !.kind = "key", !.key = key,
                                !.openBefore = open, !.ariaBefore = aria,
                                !.docRuns = s.docRuns]
     /\ UNCHANGED <<rev, pathname, navPresent, shape, href, linkActive, btnActive,
                    navInit, btnListeners, menuListeners, linkListeners, docClick,
                    docKeydown, installed, initCalls, passes>>

\* ----------------------------------------------------------------- initNav
\* if (!linkPath) return;  (the oldest revision resolves nothing and skips nothing)
SkipsLink(r, h, p) == r # "nav_basic" /\ Falsy(resolveToPath(r, h, p))

\* mutant of MarkOne: an href that does not resolve ends the pass (break, not continue)
MarkOneBreak(r, acc, l) ==
  IF SkipsLink(r, href[l], pathname) THEN [acc EXCEPT !.halt = TRUE]
  ELSE IF LinkMatches(r, href[l], pathname)
  THEN [acc EXCEPT !.link = [@ EXCEPT ![l] = TRUE],
                   !.btn = IF l # 0 /\ HasBtn(l) THEN [@ EXCEPT ![l] = TRUE] ELSE @]
  ELSE [acc EXCEPT !.link = [@ EXCEPT ![l] = FALSE]]

\* the forEach callback of markActiveNav on link l: returning from the callback
\* moves on to the next link
MarkOne(r, acc, l) ==
  IF SkipsLink(r, href[l], pathname) THEN [acc EXCEPT !.link = [@ EXCEPT ![l] = FALSE]]
  ELSE IF LinkMatches(r, href[l], pathname)
  THEN [acc EXCEPT !.link = [@ EXCEPT ![l] = TRUE],
                   !.btn = IF l # 0 /\ HasBtn(l) THEN [@ EXCEPT ![l] = TRUE] ELSE @]
  ELSE [acc EXCEPT !.link = [@ EXCEPT ![l] = FALSE]]

RECURSIVE MarkLoop(_, _, _)
\* links.forEach(...) in document order, from link l on
MarkLoop(r, l, acc) ==
  IF l > NumDropdowns \/ acc.halt THEN acc
  ELSE IF ~LinkExists(l) THEN MarkLoop(r, l + 1, acc)
  ELSE MarkLoop(r, l + 1, MarkOne(r, acc, l))

\* the classes before the matching loop: part_000 and the first nav.js revision
\* clear every link first, part_000 clears the .dropbtn elements too
MarkStart(r) ==
  [link |-> IF r = "nav_basic" THEN linkActive ELSE [l \in Links |-> FALSE],
   btn |-> IF r = "part_000" THEN [d \in Dropdowns |-> FALSE] ELSE btnActive,
   halt |-> FALSE]

\* the marks markActiveNav leaves on the links
MarkedLinks(r) ==
  IF ~navPresent THEN linkActive ELSE MarkLoop(r, 0, MarkStart(r)).link

\* the marks markActiveNav leaves on the .dropbtn elements
MarkedBtns(r) ==
  IF ~navPresent THEN btnActive ELSE MarkLoop(r, 0, MarkStart(r)).btn

\* mutant of AlreadyInit: the dataset flag is never honoured
AlreadyInitNever(flag) == FALSE

\* if (btn.dataset._navInit === '1') return;
AlreadyInit(flag) == flag = "1"

\* the revisions that guard the document listeners and wrap initNav in try/catch
Guarded(r) == r # "nav_basic"
HasTryCatch(r) == r # "nav_basic"
\* the revision that closes the menu on a click on one of its links
ClosesOnLink(r) == r = "part_000"

NoFault == [at |-> "none", d |-> 0]
\* an unexpected error may be raised on entry to markActiveNav, or by initDropdowns
\* when its loop reaches dropdown d
Faults == {NoFault, [at |-> "markActiveNav", d |-> 0]} \cup
          {[at |-> "initDropdowns", d |-> d] : d \in {x \in Dropdowns : navPresent}}

\* mutant of Wired: only the first initNav call of the page wires anything
WiredFirstCallOnly(f, d) ==
  /\ initCalls = 0
  /\ navPresent
  /\ f.at # "markActiveNav"
  /\ (f.at = "initDropdowns" => d < f.d)
  /\ shape[d] = "full"
  /\ ~AlreadyInit(navInit[d])

\* mutant of Wired: the dataset flag is checked after the wiring, not before
WiredRegardless(f, d) ==
  /\ navPresent
  /\ f.at # "markActiveNav"
  /\ (f.at = "initDropdowns" => d < f.d)
  /\ shape[d] = "full"

\* mutant of Wired: a dropdown without trigger or menu ends the forEach
WiredBreak(f, d) ==
  /\ navPresent
  /\ f.at # "markActiveNav"
  /\ (f.at = "initDropdowns" => d < f.d)
  /\ \A e \in Dropdowns : e <= d => shape[e] = "full"
  /\ ~AlreadyInit(navInit[d])

\* the dropdowns the forEach of initDropdowns wires in this call
Wired(f, d) ==
  /\ navPresent
  /\ f.at # "markActiveNav"
  /\ (f.at = "initDropdowns" => d < f.d)
  /\ shape[d] = "full"
  /\ ~AlreadyInit(navInit[d])

\* whether this call registers the two document listeners
InstallsDocHandlers(r, f) ==
  f = NoFault /\ (Guarded(r) => ~installed)

InitNav(f) ==
  /\ initCalls < MaxInits
  /\ initCalls' = initCalls + 1
  /\ passes' = passes + IF f = NoFault /\ navPresent THEN 1 ELSE 0
  /\ linkActive' = IF f.at = "markActiveNav" THEN linkActive ELSE MarkedLinks(rev)
  /\ btnActive' = IF f.at = "markActiveNav" THEN btnActive ELSE MarkedBtns(rev)
  /\ navInit' = [d \in Dropdowns |-> IF Wired(f, d) THEN "1" ELSE navInit[d]]
  /\ aria' = [d \in Dropdowns |-> IF Wired(f, d) THEN "false" ELSE aria[d]]
  /\ btnListeners' = [d \in Dropdowns |-> btnListeners[d] + IF Wired(f, d) THEN 1 ELSE 0]
  /\ menuListeners' = [d \in Dropdowns |-> menuListeners[d] + IF Wired(f, d) THEN 1 ELSE 0]
  /\ linkListeners' = [d \in Dropdowns |->
        linkListeners[d] + IF Wired(f, d) /\ ClosesOnLink(rev) THEN 1 ELSE 0]
  /\ docClick' = docClick + IF InstallsDocHandlers(rev, f) THEN 1 ELSE 0
  /\ docKeydown' = docKeydown + IF InstallsDocHandlers(rev, f) THEN 1 ELSE 0
  /\ installed' = (installed \/ (InstallsDocHandlers(rev, f) /\ Guarded(rev)))
  /\ last' = [NoEvent EXCEPT
        !.kind = "init", !.el = f.at, !.d = f.d,
        !.openBefore = open, !.ariaBefore = aria,
        !.threw = (f # NoFault /\ ~HasTryCatch(rev)),
        !.warned = (f # NoFault /\ HasTryCatch(rev)),
        !.calls = IF f.at = "markActiveNav" THEN <<"markActiveNav">>
                  ELSE <<"markActiveNav", "initDropdowns">>]
  /\ UNCHANGED <<rev, pathname, navPresent, shape, href, open>>

\* ------------------------------------------------------------- environment
\* the page's loader inserts (or replaces) the header markup: fresh elements
LoadInclude(sh, v) ==
  /\ navPresent' = TRUE
  /\ shape' = sh
  /\ href' = Markup(v)
  /\ linkActive' = [l \in Links |-> FALSE]
  /\ btnActive' = [d \in Dropdowns |-> FALSE]
  /\ navInit' = [d \in Dropdowns |-> ""]
  /\ open' = [d \in Dropdowns |-> FALSE]
  /\ aria' = [d \in Dropdowns |-> "none"]
  /\ btnListeners' = [d \in Dropdowns |-> 0]
  /\ menuListeners' = [d \in Dropdowns |-> 0]
  /\ linkListeners' = [d \in Dropdowns |-> 0]
  /\ passes' = 0
  /\ last' = [NoEvent EXCEPT !.kind = "load"]
  /\ UNCHANGED <<rev, pathname, docClick, docKeydown, installed, initCalls>>

Next ==
  \/ \E t \in Targets : Click(t) /\ UNCHANGED aux
  \/ \E key \in Keys : KeyDown(key) /\ UNCHANGED aux
  \/ \E f \in Faults : InitNav(f) /\ UNCHANGED aux
  \/ \E sh \in Shapes, v \in Variants : LoadInclude(sh, v) /\ UNCHANGED aux

Spec == Init /\ [][Next]_vars


\* ================================================================ properties
OpenSet == {d \in Dropdowns : open[d]}
TriggerClick == last.kind = "click" /\ last.el = "btn"
IsEsc(key) == key \in {"Escape", "Esc"}

\* C1: at most one dropdown is open in every reachable state; a click on the
\* wired trigger of B while another dropdown A is open leaves A closed and B open.
C1_SingleOpen ==
  /\ Cardinality(OpenSet) <= 1
  /\ \A a, b \in Dropdowns :
       (TriggerClick /\ last.d = b /\ navInit[b] = "1" /\ a # b /\ last.openBefore[a])
         => (open[b] /\ ~open[a])

C1_Witness ==
  \E a, b \in Dropdowns :
    /\ TriggerClick /\ last.d = b /\ a # b
    /\ last.openBefore[a] /\ open[b] /\ ~open[a]

\* C2: however often initNav ran over the same markup, a trigger carries exactly
\* one toggle listener, and one click on the trigger of a closed dropdown runs one
\* toggle and leaves the dropdown open.
C2_TriggerWiredOnce ==
  \A d \in Dropdowns :
    /\ btnListeners[d] <= 1
    /\ (passes >= 1 /\ shape[d] = "full") => btnListeners[d] = 1
    /\ (TriggerClick /\ last.d = d /\ navInit[d] = "1" /\ ~last.openBefore[d])
         => (open[d] /\ last.toggles = 1)

C2_Witness ==
  /\ passes >= 2
  /\ TriggerClick /\ ~last.openBefore[last.d] /\ open[last.d] /\ last.toggles = 1

\* C3 (as claimed): document carries at most one click listener and at most one
\* keydown listener, however often initNav ran.
C3_DocListenersOnce == docClick <= 1 /\ docKeydown <= 1

\* C4 (as claimed): initNav returns normally whatever its callees raise, logs a
\* warning when one raised, and enters markActiveNav before initDropdowns.
C4_InitNavNeverThrows ==
  last.kind = "init" =>
    /\ ~last.threw
    /\ (last.el # "none" => last.warned)
    /\ Head(last.calls) = "markActiveNav"

\* C5 (as claimed): a click on a link inside the menu of an open dropdown leaves
\* that dropdown closed with aria-expanded "false", and its default action stands.
C5_LinkClickCloses ==
  (last.kind = "click" /\ last.el = "link" /\ last.d # 0 /\ last.openBefore[last.d])
    => (~open[last.d] /\ aria[last.d] = "false" /\ ~last.prevented)

\* C6 (as claimed): with the document click listener registered, after a click
\* whose target is outside the subtree of every open dropdown, no dropdown that
\* was open before the click is still open.
C6_OutsideClickClosesAll ==
  (last.kind = "click" /\ docClick >= 1 /\ (last.d = 0 \/ ~last.openBefore[last.d]))
    => \A d \in Dropdowns : last.openBefore[d] => ~open[d]

\* C7: once initDropdowns has registered the keydown listener, a keydown of
\* Escape or Esc leaves every dropdown closed, every wired trigger with
\* aria-expanded "false" and no trigger with "true"; any other key changes nothing.
C7_EscClosesAll ==
  (last.kind = "key" /\ docKeydown >= 1) =>
    IF IsEsc(last.key)
    THEN \A d \in Dropdowns :
           /\ ~open[d]
           /\ aria[d] # "true"
           /\ navInit[d] = "1" => aria[d] = "false"
    ELSE open = last.openBefore /\ aria = last.ariaBefore

C7_Witness ==
  /\ last.kind = "key" /\ last.key = "Esc"
  /\ \E d \in Dropdowns : last.openBefore[d] /\ ~open[d] /\ aria[d] = "false"

\* C8: a click inside the menu of an open dropdown, not on a link, changes no
\* dropdown's open class or aria-expanded and never runs the document click listener.
C8_MenuClickInert ==
  (last.kind = "click" /\ last.el = "menu" /\ last.openBefore[last.d])
    => (open = last.openBefore /\ aria = last.ariaBefore /\ last.docRuns = 0)

C8_Witness ==
  /\ last.kind = "click" /\ last.el = "menu" /\ last.openBefore[last.d]
  /\ docClick >= 1 /\ open[last.d]

\* C9: for every wired dropdown, aria-expanded is "true" exactly when the
\* dropdown is open and "false" exactly when it is closed.
C9_AriaConsistent ==
  \A d \in Dropdowns :
    navInit[d] = "1" =>
      /\ aria[d] = "true" <=> open[d]
      /\ aria[d] = "false" <=> ~open[d]

C9_Witness ==
  \E a, b \in Dropdowns :
    /\ TriggerClick /\ last.d = b /\ last.openBefore[a] /\ a # b
    /\ aria[a] = "false" /\ aria[b] = "true" /\ navInit[a] = "1"

\* C10: a click on a wired trigger inverts its dropdown; when the dropdown became
\* open every other dropdown is closed; the second of two consecutive clicks on
\* the same trigger restores the state the dropdown had before the first.
C10_TriggerToggles ==
  \A d \in Dropdowns :
    (TriggerClick /\ last.d = d /\ navInit[d] = "1") =>
      /\ open[d] = ~last.openBefore[d]
      /\ open[d] => \A x \in Dropdowns \ {d} : ~open[x]
      /\ last.repeat => open[d] = last.openPrior

C10_Witness ==
  /\ TriggerClick /\ last.repeat /\ navInit[last.d] = "1"
  /\ last.openPrior /\ open[last.d]


\* a click whose target lies in no dropdown
OutsideClick == last.kind = "click" /\ last.el \in {"body", "link"} /\ last.d = 0
CleanInit == last.kind = "init" /\ last.el = "none"

\* C13: an initNav that finds no navigation container and no dropdown returns
\* normally, logs nothing and leaves no mark, flag, listener or open dropdown on
\* any element; an initNav on inserted or replaced markup leaves every complete
\* trigger/menu pair with exactly one trigger listener and one menu listener;
\* after it, a click outside the dropdowns or Escape leaves no dropdown open.
C13_SafeBeforeAndAfterMarkup ==
  /\ (CleanInit /\ ~navPresent) =>
        /\ ~last.threw /\ ~last.warned
        /\ \A l \in Links : ~linkActive[l]
        /\ \A d \in Dropdowns :
              /\ ~btnActive[d] /\ ~open[d] /\ navInit[d] = "" /\ aria[d] = "none"
              /\ btnListeners[d] = 0 /\ menuListeners[d] = 0 /\ linkListeners[d] = 0
  /\ (CleanInit /\ navPresent) =>
        \A d \in Dropdowns :
          shape[d] = "full" =>
            navInit[d] = "1" /\ btnListeners[d] = 1 /\ menuListeners[d] = 1
  /\ (passes >= 1 /\ (OutsideClick \/ (last.kind = "key" /\ IsEsc(last.key)))) =>
        \A d \in Dropdowns : ~open[d] /\ aria[d] # "true"

\* initNav ran once before this markup was inserted and once after it; the
\* dropdown the second call wired was opened and a click on the body closed it
C13_Witness ==
  /\ docClick + (IF Guarded(rev) THEN 1 ELSE 0) = 2 /\ initCalls = 2 /\ passes = 1
  /\ installed = Guarded(rev)
  /\ last.kind = "click" /\ last.el = "body"
  /\ \E d \in Dropdowns : last.openBefore[d] /\ ~open[d] /\ btnListeners[d] = 1

\* C18: initNav leaves the open class of every dropdown as it was, and the
\* aria-expanded of every dropdown wired before the call as it was; no click and
\* no keydown changes the active class of any link or trigger.
C18_InitKeepsOpenEventsKeepMarks ==
  /\ [](last.kind = "init" =>
          /\ open = last.openBefore
          /\ \A d \in Dropdowns : last.ariaBefore[d] # "none" => aria[d] = last.ariaBefore[d])
  /\ [][last'.kind \in {"click", "key"} =>
          (linkActive' = linkActive /\ btnActive' = btnActive)]_vars

\* initNav ran again while a dropdown was open and a link was marked
C18_Witness ==
  /\ CleanInit /\ passes >= 2
  /\ \E d \in Dropdowns : last.openBefore[d] /\ open[d] /\ aria[d] = "true"
  /\ \E l \in Links : linkActive[l]

\* C20: a dropdown without trigger or without menu never carries the dataset
\* flag, a listener, aria-expanded or the open class; an initNav that met no
\* error on markup holding such a dropdown leaves every complete dropdown wired
\* and document with its click and keydown listeners.
C20_IncompleteDropdownSkipped ==
  /\ \A d \in Dropdowns :
        (navPresent /\ shape[d] # "full") =>
          /\ navInit[d] = "" /\ aria[d] = "none" /\ ~open[d]
          /\ btnListeners[d] = 0 /\ menuListeners[d] = 0 /\ linkListeners[d] = 0
  /\ (CleanInit /\ navPresent /\ \E d \in Dropdowns : shape[d] # "full") =>
        /\ \A d \in Dropdowns : shape[d] = "full" => (navInit[d] = "1" /\ btnListeners[d] = 1)
        /\ docClick >= 1 /\ docKeydown >= 1

\* the trigger of a dropdown without menu was clicked while the complete dropdown
\* after it, wired by the same pass, was open
C20_Witness ==
  /\ last.kind = "click" /\ last.el = "btn" /\ last.d # 0
  /\ shape[last.d] = "noMenu" /\ ~open[last.d]
  /\ \E e \in Dropdowns : e > last.d /\ navInit[e] = "1" /\ last.openBefore[e] /\ docClick >= 1

\* ============================================== marking: hrefs and page paths
\* the hrefs a header link may carry
RelativeFile == <<"chronik.html">>
AbsolutePath == <<"/", "chronik.html">>
RootPath == <<"/">>
SameOriginUrl == <<"https", ":", "/", "/", "bvh.example", "/", "chronik.html">>
FragmentHrefs == {<<"#", "top">>}
SchemeHrefs == {<<"mailto", ":", "info">>, <<"tel", ":", "123">>}
CrossOriginHrefs == {<<"https", ":", "/", "/", "other.example", "/", "chronik.html">>}
MalformedHrefs == {<<"https", ":", "/", "/">>}
NotComparableHrefs ==
  FragmentHrefs \cup SchemeHrefs \cup CrossOriginHrefs \cup MalformedHrefs
MarkerHrefs ==
  {RelativeFile, AbsolutePath, RootPath, SameOriginUrl} \cup NotComparableHrefs

MarkerPages == {<<"/">>, <<"/", "chronik.html">>, <<"/", "sub", "/", "chronik.html">>}

\* history.pushState: the page path changes, the document stays
Navigate(p) ==
  /\ p # pathname
  /\ pathname' = p
  /\ last' = [NoEvent EXCEPT !.kind = "navigate"]
  /\ UNCHANGED <<rev, navPresent, shape, href, linkActive, btnActive, navInit,
                 open, aria, btnListeners, menuListeners, linkListeners, docClick,
                 docKeydown, installed, initCalls, passes>>

\* a script rewrites the href of link l
Retarget(l, h) ==
  /\ LinkExists(l)
  /\ h # href[l]
  /\ href' = [href EXCEPT ![l] = h]
  /\ last' = [NoEvent EXCEPT !.kind = "retarget", !.d = l]
  /\ UNCHANGED <<rev, pathname, navPresent, shape, linkActive, btnActive, navInit,
                 open, aria, btnListeners, menuListeners, linkListeners, docClick,
                 docKeydown, installed, initCalls, passes>>

\* the href the other links of the header share
BackgroundHrefs == {RelativeFile} \cup MalformedHrefs

\* the header is in the document: link k carries one href, every other link another
MarkerInit ==
  /\ rev \in Revisions
  /\ pathname \in MarkerPages
  /\ navPresent = TRUE
  /\ shape = AllFull
  /\ \E k \in Links, ha \in MarkerHrefs, hb \in BackgroundHrefs :
       href = [l \in Links |-> IF l = k THEN ha ELSE hb]
  /\ FreshPage
  /\ AuxIdle

\* the links a script rewrites, and the errors drawn here (markActiveNav's)
RetargetLinks == {l \in {0, 1} : href[l] = RelativeFile}
MarkerFaults == {f \in Faults : f.at # "initDropdowns"}

MarkerNext ==
  \/ \E f \in MarkerFaults : InitNav(f) /\ UNCHANGED aux
  \/ \E p \in MarkerPages : Navigate(p) /\ UNCHANGED aux
  \/ \E l \in RetargetLinks : Retarget(l, RootPath) /\ UNCHANGED aux

SpecMarker == MarkerInit /\ [][MarkerNext]_vars

\* the last operation was an initNav whose markActiveNav pass ran to its end
MarkRan == last.kind = "init" /\ last.el # "markActiveNav" /\ navPresent

\* the href of link l resolves, and to the normalized path of the current page
ResolvesToCurrent(l) ==
  LET linkPath == resolveToPath("part_000", href[l], pathname) IN
  ~Falsy(linkPath) /\ linkPath = normalizePath("part_000", pathname)

\* C11 (as claimed): after markActiveNav, a link is active exactly when its href
\* resolves to the normalized current path, and a trigger is active exactly when
\* the link inside its dropdown is active.
C11_ActiveIffMatch ==
  MarkRan =>
    /\ \A l \in Links : LinkExists(l) => (linkActive[l] <=> ResolvesToCurrent(l))
    /\ \A d \in Dropdowns : HasBtn(d) => (btnActive[d] <=> (LinkExists(d) /\ linkActive[d]))


\* what one marking pass of revision r leaves on a document without any mark
FreshLinks(r) ==
  [l \in Links |-> LinkExists(l) /\ LinkMatches(r, href[l], pathname)]
FreshBtns(r) ==
  [d \in Dropdowns |-> LinkExists(d) /\ HasBtn(d) /\ LinkMatches(r, href[d], pathname)]

\* C12 (as claimed): after an initNav, whatever the page path and the hrefs were
\* at earlier calls, the active links and triggers are those of a single pass
\* over the present path and hrefs.
C12_NoStaleMarks ==
  MarkRan => (linkActive = FreshLinks(rev) /\ btnActive = FreshBtns(rev))

\* C14 (as claimed): resolveToPath answers null for every cross-origin, malformed,
\* mailto:/tel: and bare-fragment href, and markActiveNav never marks such a link.
C14_NotComparableIsNull ==
  \A l \in Links :
    (MarkRan /\ LinkExists(l) /\ href[l] \in NotComparableHrefs) =>
      /\ rev # "nav_basic" => resolveToPath(rev, href[l], pathname) = Null
      /\ ~linkActive[l]

\* the href of link l makes the pass skip it
Unresolvable(l) == LinkExists(l) /\ SkipsLink(rev, href[l], pathname)

\* C17: a marking pass that met no error marks every link whose href matches the
\* current path, wherever links with unresolvable hrefs stand before or after it,
\* and returns normally.
C17_UnresolvableSkipsOnlyItself ==
  (MarkRan /\ last.el = "none") =>
    /\ ~last.threw /\ ~last.warned
    /\ \A l \in Links :
         (LinkExists(l) /\ LinkMatches(rev, href[l], pathname)) => linkActive[l]
    /\ \A l \in Links : Unresolvable(l) => ~linkActive[l]

C17_Witness ==
  /\ MarkRan /\ last.el = "none"
  /\ \E a, m, b \in Links :
       /\ a < m /\ m < b
       /\ Unresolvable(a) /\ Unresolvable(b)
       /\ ~Unresolvable(m) /\ linkActive[m]


\* ============================================================ normalizePath
\* the tokens of the strings normalizePath is called with
PathTokens == {"/", "?", "#", "a", "index.html"}
PathInputs == UNION {[1..n -> PathTokens] : n \in 0..MaxLen}

\* a page on which no initNav ran; normalizePath is about to be called with fnIn
PathInit ==
  /\ rev \in Revisions
  /\ pathname = <<"/">>
  /\ navPresent = FALSE
  /\ shape = AllFull
  /\ href = [l \in Links |-> <<>>]
  /\ FreshPage
  /\ twin = NoTwin
  /\ fnIn \in PathInputs
  /\ fnOut = NoCall

\* normalizePath(fnIn) returns
CallNormalizePath ==
  /\ fnOut = NoCall
  /\ fnOut' = normalizePath(rev, fnIn)
  /\ UNCHANGED <<rev, pathname, navPresent, shape, href, linkActive, btnActive,
                 navInit, open, aria, btnListeners, menuListeners, linkListeners,
                 docClick, docKeydown, installed, initCalls, passes, last, twin, fnIn>>

PathNext == CallNormalizePath

SpecPath == PathInit /\ [][PathNext]_vars

Returned == fnOut # NoCall

\* C15: normalizePath returns "/index.html" for each of "", "/", "/index.html"
\* and "/index.html/".
C15_RootFormsToIndex ==
  (Returned /\ fnIn \in {<<>>, <<"/">>, IndexHtml, IndexHtml \o <<"/">>})
    => fnOut = IndexHtml

C15_Witness ==
  Returned /\ fnIn = IndexHtml \o <<"/">> /\ fnOut = IndexHtml

\* C16 (as claimed): whatever string normalizePath is called with, its result
\* starts with "/", holds neither "?" nor "#", and does not end with "/".
C16_ResultShape ==
  Returned =>
    /\ StartsWith(fnOut, "/")
    /\ IndexOf(fnOut, "?", 1) = 0 /\ IndexOf(fnOut, "#", 1) = 0
    /\ ~EndsWith(fnOut, "/")


\* ===================================================== two pages side by side
\* The page of the variables runs nav.js as one script (its second revision is
\* in force); twin is a page with the same markup running a revision that
\* guards the document listeners. Both receive the same calls and events.
GuardedRevisions == {r \in Revisions : Guarded(r)}

TwinFresh(r) ==
  [rev |-> r,
   navInit |-> [d \in Dropdowns |-> ""],
   open |-> [d \in Dropdowns |-> FALSE],
   aria |-> [d \in Dropdowns |-> "none"],
   btnListeners |-> [d \in Dropdowns |-> 0],
   menuListeners |-> [d \in Dropdowns |-> 0],
   docClick |-> 0, docKeydown |-> 0, installed |-> FALSE]

\* every click listener registered on one node of the twin page
TwinListenersAt(s, n) ==
  IF n.el = "btn" THEN RunToggle(s, n.d, twin.btnListeners[n.d])
  ELSE IF n.el = "menu" THEN RunMenu(s, n.d, twin.menuListeners[n.d])
  ELSE IF n.el = "document" THEN RunDocClick(s, twin.docClick)
  ELSE s

RECURSIVE TwinPropagate(_, _)
TwinPropagate(s, path) ==
  IF path = <<>> THEN s
  ELSE LET s1 == TwinListenersAt(s, Head(path)) IN
       IF s1.stopped THEN s1 ELSE TwinPropagate(s1, Tail(path))

TwinDispatch0 == [open |-> twin.open, aria |-> twin.aria, stopped |-> FALSE,
                  docRuns |-> 0, toggles |-> 0, prevented |-> FALSE]

\* the same click on the twin page
TwinClick(t) ==
  LET s == TwinPropagate(TwinDispatch0, ClickPath(t))
  IN twin' = [twin EXCEPT !.open = s.open, !.aria = s.aria]

\* the same keydown on the twin page
TwinKeyDown(key) ==
  LET s == RunDocKeydown(TwinDispatch0, key, twin.docKeydown)
  IN twin' = [twin EXCEPT !.open = s.open, !.aria = s.aria]

\* the dropdowns the forEach of initDropdowns wires on the twin page
TwinWired(f, d) ==
  /\ navPresent
  /\ f.at # "markActiveNav"
  /\ (f.at = "initDropdowns" => d < f.d)
  /\ shape[d] = "full"
  /\ ~AlreadyInit(twin.navInit[d])

\* if (!window.__bv_nav_handlers_installed) { ... }
TwinInstalls(f) == f = NoFault /\ ~twin.installed

\* the same initNav call on the twin page
TwinInitNav(f) ==
  twin' = [twin EXCEPT
     !.navInit = [d \in Dropdowns |-> IF TwinWired(f, d) THEN "1" ELSE @[d]],
     !.aria = [d \in Dropdowns |-> IF TwinWired(f, d) THEN "false" ELSE @[d]],
     !.btnListeners = [d \in Dropdowns |-> @[d] + IF TwinWired(f, d) THEN 1 ELSE 0],
     !.menuListeners = [d \in Dropdowns |-> @[d] + IF TwinWired(f, d) THEN 1 ELSE 0],
     !.docClick = @ + IF TwinInstalls(f) THEN 1 ELSE 0,
     !.docKeydown = @ + IF TwinInstalls(f) THEN 1 ELSE 0,
     !.installed = @ \/ TwinInstalls(f)]

\* the loader inserts the same markup into the twin page
TwinLoadInclude ==
  twin' = [TwinFresh(twin.rev) EXCEPT
     !.docClick = twin.docClick, !.docKeydown = twin.docKeydown,
     !.installed = twin.installed]

\* trigger clicks, menu clicks, clicks outside the dropdowns
PairTargets == {t \in Targets : ~(t.el = "link" /\ t.d # 0)}

PairInit ==
  /\ rev = "nav_basic"
  /\ pathname \in Pages
  /\ navPresent = FALSE
  /\ shape = AllFull
  /\ href = [l \in Links |-> <<>>]
  /\ FreshPage
  /\ twin \in {TwinFresh(r) : r \in GuardedRevisions}
  /\ fnIn = <<>>
  /\ fnOut = NoCall

PairNext ==
  \/ \E t \in PairTargets : Click(t) /\ TwinClick(t) /\ UNCHANGED <<fnIn, fnOut>>
  \/ \E key \in Keys : KeyDown(key) /\ TwinKeyDown(key) /\ UNCHANGED <<fnIn, fnOut>>
  \/ \E f \in Faults : InitNav(f) /\ TwinInitNav(f) /\ UNCHANGED <<fnIn, fnOut>>
  \/ \E sh \in Shapes, v \in Variants :
        LoadInclude(sh, v) /\ TwinLoadInclude /\ UNCHANGED <<fnIn, fnOut>>

SpecPair == PairInit /\ [][PairNext]_vars

\* C19: after every initNav call and every trigger click, menu click, outside
\* click and key press delivered to both pages, each dropdown has the same open
\* class and the same aria-expanded on the page that registers the document
\* listeners at every call as on the page that registers them once.
C19_ReRegisteringEquivalent ==
  twin.open = open /\ twin.aria = aria

\* two document click listeners on one page, one on the other, and a click on
\* the body has just closed an open dropdown
C19_Witness ==
  /\ docClick = 2 /\ twin.docClick = 1
  /\ last.kind = "click" /\ last.el = "body" /\ last.docRuns = 2
  /\ \E d \in Dropdowns : last.openBefore[d] /\ ~open[d]

=============================================================================
